---- MODULE Spec2Model ----
(***************************************************************************)
(* Model of the business-rule debugger of kdon22/o-ui:                     *)
(*   - src/src/app/api/python/debug-execute/ast-debugger.py                *)
(*       BusinessRuleDebugger (tree-walking interpreter) and               *)
(*       debug_business_rule (entry point)            -> specification Spec *)
(*   - src/test-output-instrumented.py                                     *)
(*       an instrumented rule with __STEP_CONTROL__ markers                *)
(*                                                   -> specification ISpec *)
(***************************************************************************)
EXTENDS Integers, Sequences, FiniteSets, TLC

VARIABLES
    code,         \* execute_code's argument: [parses, body]
    pc,           \* position inside debug_business_rule / execute_code
    idx,          \* index of the next node of tree.body (the for loop at line 48)
    steps,        \* self.steps
    locals,       \* self.locals
    line_number,  \* self.line_number
    heap,         \* the Python objects with identity (lists and Record-instances)
    sink,         \* what log_message has printed ("LOG: ..." lines)
    exc,          \* the exception in flight towards `except Exception as e`
    result,       \* the dictionary debug_business_rule returns
    \* --- test-output-instrumented.py ---
    lits,         \* the two age literals of the instrumented rule (lines 20, 32)
    ipc,          \* the line the instrumented script is about to execute
    step_control, \* the module-level step_control dictionary (line 7)
    cls,          \* the attributes of class Test
    genv,         \* the module namespace of the script: name -> value
    iheap,        \* the instance dictionaries of the Test objects
    loop_pos,     \* how many elements the for loop (line 45) has consumed
    loop_list,    \* the list object the iterator of the for loop holds
    handler,      \* how far the execution is inside line 72 and the end
                  \* of the except clause: "" (not begun), "read",
                  \* "printed", "cleared", "raised", "raised_cleared"
    markers,      \* the __STEP_CONTROL__ invocations so far, in order
    stdout,       \* what the script has printed
    parked        \* the execution of the script that is not running now:
                  \* its own position, loop iterator and marker invocations

dvars == <<code, pc, idx, steps, locals, line_number, heap, sink, exc, result>>

ivars == <<lits, ipc, step_control, cls, genv, iheap, loop_pos, loop_list, handler,
          markers, stdout>>

cvars == <<parked>>

vars == <<dvars, ivars, cvars>>

(***************************************************************************)
(* Bounds                                                                  *)
(***************************************************************************)
\* longest generated rule, in top-level statements
MaxStmts == 2

(***************************************************************************)
(* Python values.  Every value is a record of one shape:                   *)
(*   t = type name, n = number / truth value / heap address, s = text      *)
(***************************************************************************)
VBool(b) == [t |-> "bool", n |-> IF b THEN 1 ELSE 0, s |-> ""]

VInt(n) == [t |-> "int", n |-> n, s |-> ""]

VStr(s) == [t |-> "str", n |-> 0, s |-> s]

VNone == [t |-> "NoneType", n |-> 0, s |-> ""]

\* a list lives on the heap; the value is a reference to it
VList(a) == [t |-> "list", n |-> a, s |-> ""]

\* a Record-instance, made by type("T", (), {})(): identity only
VRecord(a) == [t |-> "T", n |-> a, s |-> ""]

\* a function object: the log_message helper
VFunc(name) == [t |-> "function", n |-> 0, s |-> name]

\* a builtin function object, e.g. len
VBuiltin(name) == [t |-> "builtin_function_or_method", n |-> 0, s |-> name]

NoExc == <<>>

Raise(msg) == <<msg>>

\* decimal form of the small integers the rules use
IntStr(n) ==
    CASE n = 0 -> "0" [] n = 1 -> "1" [] n = 2 -> "2" [] n = 3 -> "3"
      [] n = 4 -> "4" [] n = 5 -> "5" [] n = 6 -> "6" [] n = 7 -> "7"
      [] n = 8 -> "8" [] n = 9 -> "9" [] OTHER -> "N"

RECURSIVE ListItems(_)
ListItems(l) ==
    IF l = <<>> THEN ""
    ELSE IF Len(l) = 1 THEN IntStr(l[1])
    ELSE IntStr(l[1]) \o ", " \o ListItems(Tail(l))

\* does the string s contain the character c
HasChar(s, c) == \E i \in 1..Len(s) : SubSeq(s, i, i) = c

\* the quote repr() puts around a string: double quotes when the string has
\* a single quote and no double quote, single quotes otherwise
ReprQuote(s) == IF HasChar(s, "'") /\ ~HasChar(s, "\"") THEN "\"" ELSE "'"

\* the printable ASCII characters a string here can hold, other than the
\* backslash
Printable ==
    " !\"#$%&'()*+,-./0123456789:;<=>?@ABCDEFGHIJKLMNOPQRSTUVWXYZ[]^_abcdefghijklmnopqrstuvwxyz{|}~"

\* the characters of s as repr() writes them between the quotes q: the
\* backslash and the quote escaped, \n, \t, \r by name, the form feed as
\* \x0c, a printable ASCII character as it is; no other character is in a
\* string of a rule here, and ReprBody is not defined on one
RECURSIVE ReprBody(_, _)
ReprBody(s, q) ==
    IF Len(s) = 0 THEN ""
    ELSE LET c == SubSeq(s, 1, 1)
             shown == CASE c = "\\" -> "\\\\"
                        [] c = q -> "\\" \o q
                        [] c = "\n" -> "\\n"
                        [] c = "\t" -> "\\t"
                        [] c = "\r" -> "\\r"
                        [] c = "\f" -> "\\x0c"
                        [] c # q /\ HasChar(Printable, c) -> c
         IN shown \o ReprBody(SubSeq(s, 2, Len(s)), q)

\* str(value), evaluated against heap h
PyStr(v, h) ==
    CASE v.t = "bool" -> IF v.n = 1 THEN "True" ELSE "False"
      [] v.t = "int" -> IntStr(v.n)
      [] v.t = "str" -> v.s
      [] v.t = "NoneType" -> "None"
      [] v.t = "list" -> "[" \o ListItems(h[v.n]) \o "]"
      [] v.t = "T" -> "<T object at " \o IntStr(v.n) \o ">"
      [] v.t = "function" ->
            "<function BusinessRuleDebugger.setup_environment.<locals>."
                \o v.s \o " at " \o IntStr(v.n) \o ">"
      [] v.t = "builtin_function_or_method" -> "<built-in function " \o v.s \o ">"

\* repr(value): differs from str only for strings
PyRepr(v, h) ==
    IF v.t = "str"
    THEN ReprQuote(v.s) \o ReprBody(v.s, ReprQuote(v.s)) \o ReprQuote(v.s)
    ELSE PyStr(v, h)

\* does json.dumps(value) succeed
JsonOk(v) == v.t \in {"bool", "int", "str", "NoneType", "list"}

\* bool(value)
Truthy(v, h) ==
    CASE v.t \in {"bool", "int"} -> v.n # 0
      [] v.t = "str" -> v.s # ""
      [] v.t = "NoneType" -> FALSE
      [] v.t = "list" -> h[v.n] # <<>>
      [] OTHER -> TRUE

(***************************************************************************)
(* Expressions of the rule language (ast nodes), one record shape          *)
(***************************************************************************)
\* a literal: True, 1, "m", None
Constant(v) == [e |-> "Constant", id |-> "", v |-> v, w |-> VNone]

\* an identifier
Name(id) == [e |-> "Name", id |-> id, v |-> VNone, w |-> VNone]

\* id(v): a call with one literal argument, e.g. log_message("m")
Call(id, v) == [e |-> "Call", id |-> id, v |-> v, w |-> VNone]

\* v // w on two literals
FloorDiv(v, w) == [e |-> "FloorDiv", id |-> "", v |-> v, w |-> w]

\* [v]: a fresh one-element list
ListLit(v) == [e |-> "List", id |-> "", v |-> v, w |-> VNone]

\* id.append(v)
ListAppend(id, v) == [e |-> "Append", id |-> id, v |-> v, w |-> VNone]

\* type("T", (), {})(): a fresh Record-instance
NewRecord == [e |-> "Record", id |-> "", v |-> VNone, w |-> VNone]

\* next(iter([])): raises StopIteration, whose message is empty
NextEmpty == [e |-> "NextEmpty", id |-> "", v |-> VNone, w |-> VNone]

\* the names setup_environment puts into self.globals (line 33-37)
Helpers == {"log_message", "log"}

\* names reachable through '__builtins__' (line 36) that the rules below use
Builtins == {"len"}

\* name resolution of eval(code, self.globals, self.locals)
Lookup(id, loc) ==
    IF id \in DOMAIN loc THEN [found |-> TRUE, val |-> loc[id]]
    ELSE IF id \in Helpers THEN [found |-> TRUE, val |-> VFunc("log_message")]
    ELSE IF id \in Builtins THEN [found |-> TRUE, val |-> VBuiltin(id)]
    ELSE [found |-> FALSE, val |-> VNone]

NameError(id) == "name '" \o id \o "' is not defined"

\* the result of an evaluation: a value or an exception, and the effects
Ret(val, h, out) == [val |-> val, exc |-> NoExc, heap |-> h, sink |-> out]

Thrown(msg, h, out) == [val |-> VNone, exc |-> Raise(msg), heap |-> h, sink |-> out]

\* log_message (line 29-31): prints and returns the message
log_message(message, h, out) ==
    Ret(message, h, Append(out, "LOG: " \o PyStr(message, h)))

\* eval_expression (line 111-117) on state st
eval_expression(node, st) ==
    LET h == st.heap
        out == st.sink
    IN
    CASE node.e = "Constant" -> Ret(node.v, h, out)
      [] node.e = "Name" ->
            LET r == Lookup(node.id, st.locals)
            IN IF r.found THEN Ret(r.val, h, out)
               ELSE Thrown(NameError(node.id), h, out)
      [] node.e = "Call" ->
            LET r == Lookup(node.id, st.locals)
            IN IF ~r.found THEN Thrown(NameError(node.id), h, out)
               ELSE IF r.val = VFunc("log_message") THEN log_message(node.v, h, out)
               ELSE IF r.val = VBuiltin("len")
               THEN IF node.v.t = "str" THEN Ret(VInt(Len(node.v.s)), h, out)
                    ELSE Thrown("object of type '" \o node.v.t \o "' has no len()", h, out)
               ELSE Thrown("'" \o r.val.t \o "' object is not callable", h, out)
      [] node.e = "FloorDiv" ->
            IF node.w.n = 0
            THEN Thrown("integer division or modulo by zero", h, out)
            ELSE Ret(VInt(node.v.n \div node.w.n), h, out)
      [] node.e = "List" ->
            Ret(VList(Len(h) + 1), Append(h, <<node.v.n>>), out)
      [] node.e = "Append" ->
            LET r == Lookup(node.id, st.locals)
            IN IF ~r.found THEN Thrown(NameError(node.id), h, out)
               ELSE IF r.val.t = "list"
               THEN Ret(VNone, [h EXCEPT ![r.val.n] = Append(@, node.v.n)], out)
               ELSE Thrown("'" \o r.val.t \o "' object has no attribute 'append'", h, out)
      [] node.e = "Record" ->
            Ret(VRecord(Len(h) + 1), Append(h, <<>>), out)
      [] node.e = "NextEmpty" -> Thrown("", h, out)

\* expr_to_string (line 119-121): ast.unparse
expr_to_string(node) ==
    CASE node.e = "Constant" -> PyRepr(node.v, <<>>)
      [] node.e = "Name" -> node.id
      [] node.e = "Call" -> node.id \o "(" \o PyRepr(node.v, <<>>) \o ")"
      [] node.e = "FloorDiv" ->
            PyRepr(node.v, <<>>) \o " // " \o PyRepr(node.w, <<>>)
      [] node.e = "List" -> "[" \o PyRepr(node.v, <<>>) \o "]"
      [] node.e = "Append" -> node.id \o ".append(" \o PyRepr(node.v, <<>>) \o ")"
      [] node.e = "Record" -> "type('T', (), {})()"
      [] node.e = "NextEmpty" -> "next(iter([]))"

(***************************************************************************)
(* Statements of the rule language (ast nodes), one record shape           *)
(***************************************************************************)
NoExpr == Constant(VNone)

\* an assignment target: a name (ast.Name) or an attribute path (ast.Attribute)
TName(id) == [kind |-> "Name", id |-> id, attr |-> ""]

TAttr(id, attr) == [kind |-> "Attribute", id |-> id, attr |-> attr]

\* t1 = t2 = ... = value
Assign(line, targets, value) ==
    [k |-> "Assign", lineno |-> line, targets |-> targets, value |-> value,
     test |-> NoExpr, body |-> <<>>, orelse |-> <<>>]

\* if test: body else: orelse
If(line, test, body, orelse) ==
    [k |-> "If", lineno |-> line, targets |-> <<>>, value |-> NoExpr,
     test |-> test, body |-> body, orelse |-> orelse]

\* an expression statement
Expr(line, value) ==
    [k |-> "Expr", lineno |-> line, targets |-> <<>>, value |-> value,
     test |-> NoExpr, body |-> <<>>, orelse |-> <<>>]

\* for id in iter: body else: orelse
For(line, id, iter, body, orelse) ==
    [k |-> "For", lineno |-> line, targets |-> <<TName(id)>>, value |-> iter,
     test |-> NoExpr, body |-> body, orelse |-> orelse]

\* break
Break(line) ==
    [k |-> "Break", lineno |-> line, targets |-> <<>>, value |-> NoExpr,
     test |-> NoExpr, body |-> <<>>, orelse |-> <<>>]

(***************************************************************************)
(* BusinessRuleDebugger.  The interpreter state a visit works on is        *)
(*   st = [steps, locals, line_number, heap, sink, exc]                    *)
(* where exc # NoExc means an exception is propagating.                    *)
(***************************************************************************)
\* one entry of self.steps; error is <<>> when the key is absent
StepRecord(line, variables, output, error) ==
    [line |-> line, variables |-> variables, output |-> output, error |-> error]

\* the effects of an evaluation carried into the interpreter state
AfterEval(st, r) ==
    [st EXCEPT !.heap = r.heap, !.sink = r.sink, !.exc = r.exc]

\* capture_step without the update of the current line
capture_step_keepLine(node, description, st) ==
    LET ln == node.lineno
        clean_vars ==
            [name \in DOMAIN st.locals |->
                IF JsonOk(st.locals[name]) THEN st.locals[name]
                ELSE VStr(PyStr(st.locals[name], st.heap))]
    IN [st EXCEPT !.steps = Append(@, StepRecord(ln, clean_vars, description, <<>>))]

\* capture_step (line 62-79)
capture_step(node, description, st) ==
    LET ln == node.lineno
        clean_vars ==
            [name \in DOMAIN st.locals |->
                IF JsonOk(st.locals[name]) THEN st.locals[name]
                ELSE VStr(PyStr(st.locals[name], st.heap))]
    IN [st EXCEPT !.line_number = ln,
                  !.steps = Append(@, StepRecord(ln, clean_vars, description, <<>>))]

\* the loop over node.targets of visit_Assign (line 87-90)
RECURSIVE AssignTargets(_, _, _, _)
AssignTargets(targets, node, value, st) ==
    IF targets = <<>> THEN st
    ELSE LET target == Head(targets)
             bound == [st EXCEPT !.locals = (target.id :> value) @@ @]
         IN IF target.kind = "Name"
            THEN AssignTargets(Tail(targets), node, value,
                     capture_step(node,
                         target.id \o " = " \o PyRepr(value, st.heap), bound))
            ELSE AssignTargets(Tail(targets), node, value, st)

\* visit_Assign binding its targets in a fresh environment
visit_Assign_fresh(node, st) ==
    LET r == eval_expression(node.value, st)
    IN IF r.exc # NoExc THEN AfterEval(st, r)
       ELSE AssignTargets(node.targets, node, r.val,
                [AfterEval(st, r) EXCEPT !.locals = <<>>])

\* visit_Assign (line 81-90)
visit_Assign(node, st) ==
    LET r == eval_expression(node.value, st)
    IN IF r.exc # NoExc THEN AfterEval(st, r)
       ELSE AssignTargets(node.targets, node, r.val, AfterEval(st, r))

\* visit_Expr (line 106-109)
visit_Expr(node, st) ==
    LET r == eval_expression(node.value, st)
    IN IF r.exc # NoExc THEN AfterEval(st, r)
       ELSE capture_step(node,
                "Expression result: " \o PyRepr(r.val, r.heap), AfterEval(st, r))

RECURSIVE visit(_, _)
RECURSIVE VisitAll(_, _)

\* visit_If with the two arms exchanged
visit_If_swapped(node, st) ==
    LET r == eval_expression(node.test, st)
        condition == r.val
        s1 == capture_step(node,
                  "if " \o expr_to_string(node.test) \o ": # "
                        \o PyStr(condition, r.heap),
                  AfterEval(st, r))
    IN IF r.exc # NoExc THEN AfterEval(st, r)
       ELSE IF Truthy(condition, r.heap)
            THEN VisitAll(node.orelse, s1)
            ELSE VisitAll(node.body, s1)

\* visit_If (line 92-104): both arms run node.orelse
visit_If(node, st) ==
    LET r == eval_expression(node.test, st)
        condition == r.val
        s1 == capture_step(node,
                  "if " \o expr_to_string(node.test) \o ": # "
                        \o PyStr(condition, r.heap),
                  AfterEval(st, r))
    IN IF r.exc # NoExc THEN AfterEval(st, r)
       ELSE IF Truthy(condition, r.heap)
            THEN VisitAll(node.orelse, s1)
            ELSE VisitAll(node.orelse, s1)

\* ast.NodeVisitor.generic_visit, which handles every node kind without a
\* visit_ method (For, Break, ...): it visits the child statements in field
\* order, body then orelse, once each; expressions have no visitor and are
\* not evaluated
generic_visit(node, st) ==
    VisitAll(node.orelse, VisitAll(node.body, st))

\* a dispatch without the handler for conditionals: an If is walked like any
\* other compound statement and records no step of its own
visit_noIf(node, st) ==
    CASE node.k = "Assign" -> visit_Assign(node, st)
      [] node.k = "Expr" -> visit_Expr(node, st)
      [] OTHER -> generic_visit(node, st)

\* ast.NodeVisitor.visit: dispatch on the node's class
visit(node, st) ==
    CASE node.k = "Assign" -> visit_Assign(node, st)
      [] node.k = "If" -> visit_If(node, st)
      [] node.k = "Expr" -> visit_Expr(node, st)
      [] OTHER -> generic_visit(node, st)

\* `for stmt in ...: self.visit(stmt)`; an exception ends the loop
VisitAll(stmts, st) ==
    IF stmts = <<>> \/ st.exc # NoExc THEN st
    ELSE VisitAll(Tail(stmts), visit(Head(stmts), st))

(***************************************************************************)
(* Rule sources given to debug_business_rule                               *)
(***************************************************************************)
\* a source text that parses to the statement list body
Source(body) == [parses |-> TRUE, body |-> body, msg |-> ""]

\* a source text ast.parse rejects, e.g. "if x"
BadSource == [parses |-> FALSE, body |-> <<>>, msg |-> "expected ':' (<unknown>, line 1)"]

\* the top-level statements a generated rule is built from, placed at line L
\* (each occupies at most four lines)
Pool(L) == <<
    Assign(L, <<TName("x")>>, Constant(VBool(TRUE))),
    Assign(L, <<TName("x")>>, Constant(VBool(FALSE))),
    Assign(L, <<TName("a"), TName("b")>>, Constant(VInt(1))),
    Assign(L, <<TName("xs")>>, ListLit(VInt(1))),
    Expr(L, ListAppend("xs", VInt(2))),
    Assign(L, <<TName("o")>>, NewRecord),
    Assign(L, <<TAttr("o", "age")>>, Constant(VInt(4))),
    Expr(L, FloorDiv(VInt(1), VInt(0))),
    Expr(L, NextEmpty),
    Expr(L, Call("log", VStr("m"))),
    Expr(L, Name("len")),
    Assign(L, <<TName("f")>>, Name("log")),
    Assign(L, <<TName("s")>>, Constant(VStr("it's"))),
    Assign(L, <<TName("s")>>, Constant(VStr("it's \"x\""))),
    Assign(L, <<TName("s")>>, Constant(VStr("a\fb"))),
    If(L, Name("x"),
       <<Expr(L + 1, Call("log_message", VStr("A")))>>,
       <<Expr(L + 3, Call("log_message", VStr("B")))>>),
    If(L, Name("xs"),
       <<Assign(L + 1, <<TName("y")>>, Constant(VInt(1)))>>,
       <<Assign(L + 3, <<TName("y")>>, Name("z"))>>),
    For(L, "t", Name("xs"),
       <<Break(L + 1)>>,
       <<Assign(L + 3, <<TName("y")>>, Constant(VInt(1)))>>),
    For(L, "t", Name("xs"),
       <<Expr(L + 1, Call("log", VStr("i")))>>,
       <<Assign(L + 3, <<TName("y")>>, Constant(VInt(2)))>>)
>>

PoolSize == Len(Pool(1))

\* the first line of the i-th top-level statement of a generated rule
LineOf(i) == 4 * (i - 1) + 1

\* the generated rules: every sequence of 1..MaxStmts pool statements
Rules ==
    UNION { { [i \in 1..n |-> Pool(LineOf(i))[f[i]]] : f \in [1..n -> 1..PoolSize] }
            : n \in 1..MaxStmts }

\* the sample rule of the __main__ block (line 137-144)
SampleRule == <<
    Assign(2, <<TName("new_bool")>>, Constant(VBool(TRUE))),
    Assign(3, <<TName("new_bool")>>, Constant(VBool(FALSE))),
    If(4, Name("new_bool"),
       <<Expr(5, Call("log_message", VStr("m")))>>,
       <<Expr(7, Call("log_message", VStr("b")))>>)
>>

Sources == {BadSource, Source(<<>>), Source(SampleRule)} \cup {Source(b) : b \in Rules}

\* a parser that answers an unparsable text with an empty module
ast_parse_lenient(src) == [exc |-> NoExc, body |-> src.body]

\* ast.parse (line 45)
ast_parse(src) ==
    IF src.parses THEN [exc |-> NoExc, body |-> src.body]
    ELSE [exc |-> Raise(src.msg), body |-> <<>>]

(***************************************************************************)
(* debug_business_rule / execute_code as a state machine                   *)
(***************************************************************************)
NoResult == [returned |-> FALSE, success |-> FALSE, debugSteps |-> <<>>]

EmptyDict == [name \in {} |-> VNone]

\* the interpreter state as the record the visit operators work on
Self == [steps |-> steps, locals |-> locals, line_number |-> line_number,
         heap |-> heap, sink |-> sink, exc |-> exc]

(***************************************************************************)
(* test-output-instrumented.py: the instrumented rule.  The script is the  *)
(* output of the rewriter for one rule; its two age literals (line 20:     *)
(* age = 12, line 32: newCls.age = 4) decide which path the loop takes,    *)
(* so the model runs the script for each choice of them out of AgeLits.    *)
(***************************************************************************)
\* the literals as written in the file
ScriptLits == [clsAge |-> 12, setAge |-> 4]

\* the age literals tried: the values the script compares ages with
\* (lines 46, 47, 50, 59, 62)
AgeLits == {3, 4, 5, 6, 12}

\* the line after the last one: the script has ended
EndOfScript == 75

\* the context of an execution of the script: what belongs to the thread
\* running it, as opposed to the module namespace
Context(line, pos, list, h, calls) ==
    [ipc |-> line, loop_pos |-> pos, loop_list |-> list, handler |-> h,
     markers |-> calls]

\* no second execution
NoExecution == Context(EndOfScript, 0, <<>>, "", <<>>)

\* the module has been loaded up to line 11: step_control is initialised
\* (line 7) and the try block (line 13) is about to run the class body
Loaded(l) ==
    /\ lits = l
    /\ ipc = 18
    /\ step_control = [current_step |-> 0, mode |-> "step", target_step |-> 1]
    /\ cls = EmptyDict
    /\ genv = EmptyDict
    /\ iheap = <<>>
    /\ loop_pos = 0
    /\ loop_list = <<>>
    /\ handler = ""
    /\ markers = <<>>
    /\ stdout = <<>>

\* debug_business_rule has been called with a source and has constructed
\* the debugger: __init__ (line 17-24)
Called(src) ==
    /\ code = src
    /\ pc = "parse"
    /\ idx = 1
    /\ steps = <<>>
    /\ locals = EmptyDict
    /\ line_number = 0
    /\ heap = <<>>
    /\ sink = <<>>
    /\ exc = NoExc
    /\ result = NoResult

\* the debugger is called on any of the sources; the instrumented script is
\* not running
Init ==
    /\ \E src \in Sources : Called(src)
    /\ Loaded(ScriptLits)
    /\ parked = NoExecution

\* execute_code, line 45: tree = ast.parse(code)
Parse ==
    /\ pc = "parse"
    /\ LET tree == ast_parse(code)
       IN /\ exc' = tree.exc
          /\ pc' = IF tree.exc # NoExc THEN "except" ELSE "loop"
    /\ UNCHANGED <<code, idx, steps, locals, line_number, heap, sink, result, ivars, cvars>>

\* execute_code, line 48-49: one iteration of `for node in tree.body`
VisitNode ==
    /\ pc = "loop"
    /\ idx <= Len(code.body)
    /\ LET st == visit(code.body[idx], Self)
       IN /\ steps' = st.steps
          /\ locals' = st.locals
          /\ line_number' = st.line_number
          /\ heap' = st.heap
          /\ sink' = st.sink
          /\ exc' = st.exc
          /\ pc' = IF st.exc # NoExc THEN "except" ELSE "loop"
          /\ idx' = IF st.exc # NoExc THEN idx ELSE idx + 1
    /\ UNCHANGED <<code, result, ivars, cvars>>

\* execute_code, line 51: return self.steps
ReturnSteps ==
    /\ pc = "loop"
    /\ idx > Len(code.body)
    /\ pc' = "return"
    /\ UNCHANGED <<code, idx, steps, locals, line_number, heap, sink, exc, result, ivars, cvars>>

\* the terminal step of the except clause (line 54-59)
ErrorStep(e) ==
    StepRecord(line_number, locals, "Error: " \o e, <<e>>)

\* execute_code, line 53-60: except Exception as e
Except ==
    /\ pc = "except"
    /\ steps' = Append(steps, ErrorStep(exc[1]))
    /\ exc' = NoExc
    /\ pc' = "return"
    /\ UNCHANGED <<code, idx, locals, line_number, heap, sink, result, ivars, cvars>>

\* a success flag that reports a recorded error step
Success_fromSteps(debugSteps) ==
    debugSteps = <<>> \/ debugSteps[Len(debugSteps)].error = <<>>

\* the success flag of debug_business_rule's result (line 131)
Success(debugSteps) == TRUE

\* debug_business_rule, line 130-133: build and return the result
DebugReturn ==
    /\ pc = "return"
    /\ result' = [returned |-> TRUE, success |-> Success(steps), debugSteps |-> steps]
    /\ pc' = "done"
    /\ UNCHANGED <<code, idx, steps, locals, line_number, heap, sink, exc, ivars, cvars>>

Next == Parse \/ VisitNode \/ ReturnSteps \/ Except \/ DebugReturn

Spec == Init /\ [][Next]_vars

(***************************************************************************)
(* Properties of the tree-walking interpreter                              *)
(***************************************************************************)
(* test-output-instrumented.py as a state machine: one action per kind of  *)
(* statement, ipc is the line of the statement to execute next             *)
(***************************************************************************)
\* an instance of class Test; its own attributes are iheap[a]
VInst(a) == [t |-> "Test", n |-> a, s |-> ""]

\* the arguments of one marker invocation
MarkerCall(id, n, desc) ==
    [step_id |-> id, python_line |-> n, business_line |-> n, description |-> desc]

\* the marker statements of the script, by line
MarkerLines == {19, 21, 24, 27, 30, 33, 35, 38, 43, 49, 52, 54, 58, 61, 64, 66, 68, 74}

MarkerAt(line) ==
    CASE line = 19 -> MarkerCall("STMT_3", 3, "name = \"ell\"")
      [] line = 21 -> MarkerCall("STMT_4", 4, "age = 12")
      [] line = 24 -> MarkerCall("STMT_6", 6, "air = \"123\"")
      [] line = 27 -> MarkerCall("STMT_8", 8, "newS = 5")
      [] line = 30 -> MarkerCall("STMT_10", 10, "newCls = Test()")
      [] line = 33 -> MarkerCall("STMT_12", 12, "newCls.age = 4")
      [] line = 35 -> MarkerCall("STMT_13", 13, "newCls.name = \"ger\"")
      [] line = 38 -> MarkerCall("STMT_15", 15, "new1Cls = Test()")
      [] line = 43 -> MarkerCall("STMT_19", 19, "testClasses = [newCls, new1Cls]")
      [] line = 49 -> MarkerCall("STMT_24", 24, "air = \"\"")
      [] line = 52 -> MarkerCall("STMT_26", 26, "air = \"gthan\"")
      [] line = 54 -> MarkerCall("STMT_28", 28, "break")
      [] line = 58 -> MarkerCall("STMT_30", 30, "air = \"RR\"")
      [] line = 61 -> MarkerCall("STMT_32", 32, "air = \"\"")
      [] line = 64 -> MarkerCall("STMT_34", 34, "air = \"gthan\"")
      [] line = 66 -> MarkerCall("STMT_35", 35, "air = \"\"")
      [] line = 68 -> MarkerCall("STMT_36", 36, "air = \"yes\"")
      [] line = 74 -> MarkerCall("COMPLETE", 0, "Execution completed")

\* the order of statements had the COMPLETE marker been the last statement
\* inside the try block: the except clause would not lead to it
Succ_completeInTry(line) ==
    CASE line = 18 -> 19 [] line = 19 -> 20 [] line = 20 -> 21 [] line = 21 -> 22
      [] line = 22 -> 23 [] line = 23 -> 24 [] line = 24 -> 26 [] line = 26 -> 27
      [] line = 27 -> 29 [] line = 29 -> 30 [] line = 30 -> 32 [] line = 32 -> 33
      [] line = 33 -> 34 [] line = 34 -> 35 [] line = 35 -> 37 [] line = 37 -> 38
      [] line = 38 -> 42 [] line = 42 -> 43 [] line = 43 -> 45
      [] line = 48 -> 49 [] line = 49 -> 54
      [] line = 51 -> 52 [] line = 52 -> 54
      [] line = 54 -> 55 [] line = 55 -> 74
      [] line = 57 -> 58 [] line = 58 -> 59
      [] line = 60 -> 61 [] line = 61 -> 74
      [] line = 63 -> 64 [] line = 64 -> 65 [] line = 65 -> 66 [] line = 66 -> 67
      [] line = 67 -> 68 [] line = 68 -> 74
      [] line = 70 -> 71 [] line = 71 -> 72 [] line = 72 -> EndOfScript
      [] line = 74 -> EndOfScript

\* the statement executed after the one at line, for the statements that
\* do not branch; 22 stands for the end of the class body (line 17-21),
\* 74 for leaving the try statement
Succ(line) ==
    CASE line = 18 -> 19 [] line = 19 -> 20 [] line = 20 -> 21 [] line = 21 -> 22
      [] line = 22 -> 23 [] line = 23 -> 24 [] line = 24 -> 26 [] line = 26 -> 27
      [] line = 27 -> 29 [] line = 29 -> 30 [] line = 30 -> 32 [] line = 32 -> 33
      [] line = 33 -> 34 [] line = 34 -> 35 [] line = 35 -> 37 [] line = 37 -> 38
      [] line = 38 -> 42 [] line = 42 -> 43 [] line = 43 -> 45
      [] line = 48 -> 49 [] line = 49 -> 54
      [] line = 51 -> 52 [] line = 52 -> 54
      [] line = 54 -> 55 [] line = 55 -> 74
      [] line = 57 -> 58 [] line = 58 -> 59
      [] line = 60 -> 61 [] line = 61 -> 74
      [] line = 63 -> 64 [] line = 64 -> 65 [] line = 65 -> 66 [] line = 66 -> 67
      [] line = 67 -> 68 [] line = 68 -> 74
      [] line = 70 -> 71 [] line = 71 -> 72 [] line = 72 -> 74
      [] line = 74 -> EndOfScript

\* a __STEP_CONTROL__ that counts only the statements of the rule, not the
\* COMPLETE marker
STEP_CONTROL_skipComplete(ctl, step_id, python_line, business_line, description) ==
    [ctl |-> IF step_id = "COMPLETE" THEN ctl
             ELSE [ctl EXCEPT !.current_step = @ + 1],
     ret |-> TRUE]

\* __STEP_CONTROL__ (line 9-11): the new step_control and the return value
STEP_CONTROL(ctl, step_id, python_line, business_line, description) ==
    [ctl |-> [ctl EXCEPT !.current_step = @ + 1], ret |-> TRUE]

\* a marker statement: the call of __STEP_CONTROL__, its result dropped
Marker ==
    /\ ipc \in MarkerLines
    /\ LET m == MarkerAt(ipc)
           r == STEP_CONTROL(step_control, m.step_id, m.python_line,
                             m.business_line, m.description)
       IN /\ step_control' = r.ctl
          /\ markers' = Append(markers, m)
    /\ ipc' = Succ(ipc)
    /\ UNCHANGED <<lits, cls, genv, iheap, loop_pos, loop_list, handler, stdout, dvars, cvars>>

\* the assignments in the class body (line 18, 20)
ClassAttr ==
    /\ ipc \in {18, 20}
    /\ cls' = IF ipc = 18 THEN ("name" :> VStr("ell")) @@ cls
              ELSE ("age" :> VInt(lits.clsAge)) @@ cls
    /\ ipc' = Succ(ipc)
    /\ UNCHANGED <<lits, step_control, genv, iheap, loop_pos, loop_list, handler, markers, stdout, dvars, cvars>>

\* the end of the class statement (line 17): Test is bound
ClassDef ==
    /\ ipc = 22
    /\ genv' = ("Test" :> [t |-> "type", n |-> 0, s |-> "Test"]) @@ genv
    /\ ipc' = Succ(ipc)
    /\ UNCHANGED <<lits, step_control, cls, iheap, loop_pos, loop_list, handler, markers, stdout, dvars, cvars>>

\* the assignments of a literal to the names air and newS
NameAssigns ==
    [l \in {23, 26, 48, 51, 57, 60, 63, 65, 67} |->
        CASE l = 23 -> <<"air", VStr("123")>>
          [] l = 26 -> <<"newS", VInt(5)>>
          [] l = 48 -> <<"air", VStr("")>>
          [] l = 51 -> <<"air", VStr("gthan")>>
          [] l = 57 -> <<"air", VStr("RR")>>
          [] l = 60 -> <<"air", VStr("")>>
          [] l = 63 -> <<"air", VStr("gthan")>>
          [] l = 65 -> <<"air", VStr("")>>
          [] l = 67 -> <<"air", VStr("yes")>>]

AssignName ==
    /\ ipc \in DOMAIN NameAssigns
    /\ genv' = (NameAssigns[ipc][1] :> NameAssigns[ipc][2]) @@ genv
    /\ ipc' = Succ(ipc)
    /\ UNCHANGED <<lits, step_control, cls, iheap, loop_pos, loop_list, handler, markers, stdout, dvars, cvars>>

\* newCls = Test() (line 29), new1Cls = Test() (line 37)
NewInstance ==
    /\ ipc \in {29, 37}
    /\ iheap' = Append(iheap, EmptyDict)
    /\ genv' = ((IF ipc = 29 THEN "newCls" ELSE "new1Cls") :> VInst(Len(iheap) + 1)) @@ genv
    /\ ipc' = Succ(ipc)
    /\ UNCHANGED <<lits, step_control, cls, loop_pos, loop_list, handler, markers, stdout, dvars, cvars>>

\* newCls.age = 4 (line 32), newCls.name = "ger" (line 34)
SetAttr ==
    /\ ipc \in {32, 34}
    /\ iheap' = [iheap EXCEPT ![genv["newCls"].n] =
                    IF ipc = 32 THEN ("age" :> VInt(lits.setAge)) @@ @
                    ELSE ("name" :> VStr("ger")) @@ @]
    /\ ipc' = Succ(ipc)
    /\ UNCHANGED <<lits, step_control, cls, genv, loop_pos, loop_list, handler, markers, stdout, dvars, cvars>>

\* testClasses = [newCls, new1Cls] (line 42)
BuildList ==
    /\ ipc = 42
    /\ genv' = ("testClasses" :> <<genv["newCls"], genv["new1Cls"]>>) @@ genv
    /\ ipc' = Succ(ipc)
    /\ UNCHANGED <<lits, step_control, cls, iheap, loop_pos, loop_list, handler, markers, stdout, dvars, cvars>>

\* for testcls in testClasses (line 45): on entry the statement evaluates
\* testClasses once and iterates over that list object; each arrival binds
\* the next element and enters the body, or runs the else branch (line 56)
\* when the list is exhausted
ForNext ==
    /\ ipc = 45
    /\ LET list == IF loop_pos = 0 THEN genv["testClasses"] ELSE loop_list
       IN /\ loop_list' = list
          /\ IF loop_pos < Len(list)
             THEN /\ genv' = ("testcls" :> list[loop_pos + 1]) @@ genv
                  /\ loop_pos' = loop_pos + 1
                  /\ ipc' = 46
             ELSE /\ ipc' = 57
                  /\ UNCHANGED <<genv, loop_pos>>
    /\ UNCHANGED <<lits, step_control, cls, iheap, handler, markers, stdout, dvars, cvars>>

\* attribute lookup on an instance: its own dictionary, then the class
GetAttr(inst, attr) ==
    IF attr \in DOMAIN iheap[inst.n] THEN iheap[inst.n][attr] ELSE cls[attr]

\* the conditions of the script: line -> <<variable, age compared with,
\* next line when equal, next line otherwise>>
Tests ==
    [l \in {46, 47, 50, 59, 62} |->
        CASE l = 46 -> <<"testcls", 4, 47, 45>>
          [] l = 47 -> <<"newCls", 5, 48, 50>>
          [] l = 50 -> <<"newCls", 3, 51, 54>>
          [] l = 59 -> <<"newCls", 6, 60, 62>>
          [] l = 62 -> <<"newCls", 12, 63, 74>>]

\* if / elif <variable>.age == <literal>
Test ==
    /\ ipc \in DOMAIN Tests
    /\ LET t == Tests[ipc]
       IN ipc' = IF GetAttr(genv[t[1]], "age") = VInt(t[2]) THEN t[3] ELSE t[4]
    /\ UNCHANGED <<lits, step_control, cls, genv, iheap, loop_pos, loop_list, handler, markers, stdout, dvars, cvars>>

\* break (line 55): leaves the loop, skipping its else branch
BreakStmt ==
    /\ ipc = 55
    /\ ipc' = Succ(ipc)
    /\ UNCHANGED <<lits, step_control, cls, genv, iheap, loop_pos, loop_list, handler, markers, stdout, dvars, cvars>>

\* the statements of the rule inside the try block (line 13-68)
RuleLines == {18, 20, 22, 29, 32, 34, 37, 42, 45, 55} \cup DOMAIN NameAssigns \cup DOMAIN Tests

\* a statement of the rule raises an Exception instead of completing:
\* control passes to the except clause (line 70)
RaiseInBody ==
    /\ ipc \in RuleLines
    /\ ipc' = 70
    /\ UNCHANGED <<lits, step_control, cls, genv, iheap, loop_pos, loop_list, handler, markers, stdout, dvars, cvars>>

\* the exception a statement of the rule raised
VExc == [t |-> "Exception", n |-> 0, s |-> ""]

\* a dictionary without the key name
Unbind(d, name) == [k \in DOMAIN d \ {name} |-> d[k]]

\* except Exception as e (line 70): the exception is bound to the
\* module-level name e
ExceptBind ==
    /\ ipc = 70
    /\ genv' = ("e" :> VExc) @@ genv
    /\ ipc' = Succ(ipc)
    /\ UNCHANGED <<lits, step_control, cls, iheap, loop_pos, loop_list, handler, markers, stdout, dvars, cvars>>

\* print("__EXECUTION_ERROR__") (line 71)
PrintSentinel ==
    /\ ipc = 71
    /\ stdout' = Append(stdout, "__EXECUTION_ERROR__")
    /\ ipc' = Succ(ipc)
    /\ UNCHANGED <<lits, step_control, cls, genv, iheap, loop_pos, loop_list, handler, markers, dvars, cvars>>

\* line 72, the arguments of print(json.dumps({"error": str(e), ...})):
\* the name e is read; when e is not bound this raises NameError inside the
\* handler
ReadError ==
    /\ ipc = 72
    /\ handler = ""
    /\ handler' = IF "e" \in DOMAIN genv THEN "read" ELSE "raised"
    /\ UNCHANGED <<lits, ipc, step_control, cls, genv, iheap, loop_pos, loop_list, markers, stdout, dvars, cvars>>

\* line 72, the call of print with the text evaluated
PrintError ==
    /\ ipc = 72
    /\ handler = "read"
    /\ stdout' = Append(stdout, "{\"error\": ..., \"traceback\": ...}")
    /\ handler' = "printed"
    /\ UNCHANGED <<lits, ipc, step_control, cls, genv, iheap, loop_pos, loop_list, markers, dvars, cvars>>

\* the end of the except clause, e = None: after the print, or on the way
\* out with the NameError
ClearError ==
    /\ ipc = 72
    /\ handler \in {"printed", "raised"}
    /\ genv' = ("e" :> VNone) @@ genv
    /\ handler' = IF handler = "printed" THEN "cleared" ELSE "raised_cleared"
    /\ UNCHANGED <<lits, ipc, step_control, cls, iheap, loop_pos, loop_list, markers, stdout, dvars, cvars>>

\* the end of the except clause, del e: the execution goes on to line 74,
\* unless it is on the way out with the NameError or e is not bound (del e
\* raises NameError); then it ends there, uncaught
DelError ==
    /\ ipc = 72
    /\ handler \in {"cleared", "raised_cleared"}
    /\ genv' = Unbind(genv, "e")
    /\ ipc' = IF handler = "cleared" /\ "e" \in DOMAIN genv THEN Succ(ipc)
              ELSE EndOfScript
    /\ handler' = ""
    /\ UNCHANGED <<lits, step_control, cls, iheap, loop_pos, loop_list, markers, stdout, dvars, cvars>>

\* the script is run with each choice of the age literals; the debugger is
\* not running
IInit ==
    /\ \E l \in [clsAge : AgeLits, setAge : AgeLits] : Loaded(l)
    /\ Called(Source(<<>>))
    /\ parked = NoExecution

INext ==
    \/ Marker \/ ClassAttr \/ ClassDef \/ AssignName \/ NewInstance \/ SetAttr
    \/ BuildList \/ ForNext \/ Test \/ BreakStmt \/ RaiseInBody \/ ExceptBind
    \/ PrintSentinel \/ ReadError \/ PrintError \/ ClearError \/ DelError

ISpec == IInit /\ [][INext]_vars

(***************************************************************************)
(* Two executions of the instrumented script interleaved in one            *)
(* interpreter.  step_control, __STEP_CONTROL__ and the variables of the   *)
(* rule are module-level names (line 7-68), so both executions use the     *)
(* same ones; each execution has its own position, loop iterator and       *)
(* marker invocations.  The literals are those of the file.                *)
(***************************************************************************)
\* line 7 of an execution: step_control = {"current_step": 0, ...}
LoadModule ==
    /\ ipc = 7
    /\ step_control' = [current_step |-> 0, mode |-> "step", target_step |-> 1]
    /\ ipc' = 18
    /\ UNCHANGED <<lits, cls, genv, iheap, loop_pos, loop_list, handler, markers, stdout, dvars, cvars>>

\* the interpreter switches to the other execution
Switch ==
    /\ parked.ipc # EndOfScript
    /\ ipc' = parked.ipc
    /\ loop_pos' = parked.loop_pos
    /\ loop_list' = parked.loop_list
    /\ handler' = parked.handler
    /\ markers' = parked.markers
    /\ parked' = Context(ipc, loop_pos, loop_list, handler, markers)
    /\ UNCHANGED <<lits, step_control, cls, genv, iheap, stdout, dvars>>

\* one execution has loaded the module, the other is about to
CInit ==
    /\ Loaded(ScriptLits)
    /\ Called(Source(<<>>))
    /\ parked = Context(7, 0, <<>>, "", <<>>)

CNext == INext \/ LoadModule \/ Switch

CSpec == CInit /\ [][CNext]_vars

(***************************************************************************)
\* the node VisitNode is about to visit
Node == code.body[idx]

AtNode(kind) == pc = "loop" /\ idx <= Len(code.body) /\ Node.k = kind

\* the steps the current transition appends
NewSteps == SubSeq(steps', Len(steps) + 1, Len(steps'))

LinesOf(stmts) == {stmts[i].lineno : i \in DOMAIN stmts}

Recorded(ss, line) == \E i \in DOMAIN ss : ss[i].line = line

Outputs(ss) == [i \in DOMAIN ss |-> ss[i].output]

StepLines(ss) == [i \in DOMAIN ss |-> ss[i].line]

IsPrefix(p, q) == Len(p) <= Len(q) /\ SubSeq(q, 1, Len(p)) = p

\* C1: a conditional whose test evaluates runs exactly one branch: no step of
\* the branch not chosen by the test is recorded, and every statement of the
\* chosen branch records its step (unless it raises)
C1_ExactlyOneBranch ==
    [][ (AtNode("If") /\ eval_expression(Node.test, Self).exc = NoExc) =>
          LET r == eval_expression(Node.test, Self)
              taken == IF Truthy(r.val, r.heap) THEN Node.body ELSE Node.orelse
              other == IF Truthy(r.val, r.heap) THEN Node.orelse ELSE Node.body
          IN /\ \A l \in LinesOf(other) : ~Recorded(NewSteps, l)
             /\ exc' = NoExc => \A l \in LinesOf(taken) : Recorded(NewSteps, l)
      ]_vars

\* C2 as stated: the sample rule yields exactly 3 steps: assign True, assign
\* False, the result of log_message("b")
C2_ThreeSteps ==
    (result.returned /\ code = Source(SampleRule)) =>
        Outputs(result.debugSteps) =
            <<"new_bool = True", "new_bool = False", "Expression result: 'b'">>

\* C2 amended: the sample rule yields exactly 4 steps, at lines 2, 3, 4, 7:
\* assign True, assign False, the conditional's test, the result of
\* log_message("b"); no step for log_message("m") (line 5)
C2_FourSteps ==
    (result.returned /\ code = Source(SampleRule)) =>
        /\ Outputs(result.debugSteps) =
              <<"new_bool = True", "new_bool = False",
                "if new_bool: # False", "Expression result: 'b'">>
        /\ StepLines(result.debugSteps) = <<2, 3, 4, 7>>
        /\ sink = <<"LOG: b">>

C2_Witness ==
    result.returned /\ code = Source(SampleRule) /\ Len(result.debugSteps) = 4

\* C3: when a statement raises, the steps recorded before it stay as they
\* are, exactly one terminal step with a non-empty error message follows,
\* no further statement runs and no step is recorded after it
C3_ErrorContainment ==
    [][ /\ (pc = "loop" /\ exc' # NoExc) => IsPrefix(steps, steps')
        /\ pc = "except" =>
              /\ Len(steps') = Len(steps) + 1
              /\ IsPrefix(steps, steps')
              /\ steps'[Len(steps')].error # <<>>
              /\ steps'[Len(steps')].error[1] # ""
              /\ idx' = idx
        /\ pc \in {"return", "done"} => steps' = steps /\ idx' = idx
      ]_vars

\* what a reader of a step sees of a value: a list shows its items
View(v, h) ==
    [t |-> v.t, n |-> v.n, s |-> v.s,
     items |-> IF v.t = "list" THEN h[v.n] ELSE <<>>]

SnapshotView(step, h) ==
    [name \in DOMAIN step.variables |-> View(step.variables[name], h)]

\* C4: the snapshot of a recorded step never changes afterwards
C4_SnapshotIsolation ==
    [][ \A i \in 1..Len(steps) :
            SnapshotView(steps'[i], heap') = SnapshotView(steps[i], heap) ]_vars

\* the JSON-safe form of the bindings loc
CleanVars(loc, h) ==
    [name \in DOMAIN loc |->
        IF JsonOk(loc[name]) THEN loc[name] ELSE VStr(PyStr(loc[name], h))]

\* C5: every step record, the terminal error step included, holds the
\* bindings with each unencodable value replaced by its string form and each
\* encodable value as itself
C5_JsonSafe ==
    [][ /\ Len(steps') = Len(steps) + 1 =>
              steps'[Len(steps')].variables = CleanVars(locals', heap')
        /\ \A i \in 1..Len(steps') :
              \A name \in DOMAIN steps'[i].variables :
                  JsonOk(steps'[i].variables[name])
      ]_vars

RECURSIVE TargetCount(_)
TargetCount(stmts) ==
    IF stmts = <<>> THEN 0 ELSE Len(Head(stmts).targets) + TargetCount(Tail(stmts))

OnlyAssignments(stmts) == \A i \in DOMAIN stmts : stmts[i].k = "Assign"

\* every attribute-path target of the rule names a bound variable
AttrBasesBound(stmts) ==
    \A i \in DOMAIN stmts : \A j \in DOMAIN stmts[i].targets :
        stmts[i].targets[j].kind = "Attribute" =>
            stmts[i].targets[j].id \in DOMAIN locals

HasError(ss) == \E i \in DOMAIN ss : ss[i].error # <<>>

\* C6: a rule made of assignments only, run to the end without an error,
\* returns as many steps as it has assignment targets
C6_StepPerTarget ==
    (result.returned /\ code.parses /\ OnlyAssignments(code.body)
        /\ AttrBasesBound(code.body) /\ ~HasError(result.debugSteps)) =>
        Len(result.debugSteps) = TargetCount(code.body)

CountAt(ss, line) == Cardinality({i \in DOMAIN ss : ss[i].line = line})

\* the loop at Node reaches a `break`: its sequence has an element and its
\* body has an unconditional break
BreakReached(items) ==
    items # <<>> /\ \E i \in DOMAIN Node.body : Node.body[i].k = "Break"

\* C7: the completion branch of a loop never runs when a break is reached,
\* and runs exactly once when the sequence is exhausted without one
C7_CompletionBranch ==
    [][ (AtNode("For") /\ eval_expression(Node.value, Self).val.t = "list") =>
          LET r == eval_expression(Node.value, Self)
              items == r.heap[r.val.n]
          IN IF BreakReached(items)
             THEN \A l \in LinesOf(Node.orelse) : ~Recorded(NewSteps, l)
             ELSE exc' = NoExc =>
                     \A l \in LinesOf(Node.orelse) : CountAt(NewSteps, l) = 1
      ]_vars

\* C8: the returned result has success = true whatever the source, and an
\* error shows only in the error field of the last step
C8_AlwaysSuccess ==
    result.returned =>
        /\ result.success = TRUE
        /\ \A i \in DOMAIN result.debugSteps :
              result.debugSteps[i].error # <<>> => i = Len(result.debugSteps)

C8_Witness ==
    /\ result.returned
    /\ result.debugSteps # <<>>
    /\ result.debugSteps[Len(result.debugSteps)].error # <<>>

\* C9: a source that fails to parse executes no statement and yields exactly
\* one step, with line 0 and the parser's message as its error
C9_ParseFailure ==
    ~code.parses =>
        /\ idx = 1 /\ locals = EmptyDict /\ sink = <<>> /\ pc # "loop"
        /\ pc \in {"return", "done"} =>
              /\ Len(steps) = 1
              /\ steps[1].line = 0
              /\ steps[1].error = <<code.msg>>
              /\ code.msg # ""
        /\ result.returned => result.debugSteps = steps

C9_Witness ==
    ~code.parses /\ result.returned /\ Len(result.debugSteps) = 1

(***************************************************************************)
(* Properties of the instrumented script                                   *)
(***************************************************************************)
Completes == {i \in DOMAIN markers : markers[i].step_id = "COMPLETE"}

\* C10: the completion marker (COMPLETE, line 0) is invoked exactly once in
\* a run, as its last marker invocation, whether the body ends normally or
\* raises
C10_CompleteOnce ==
    /\ ipc # EndOfScript => Completes = {}
    /\ ipc = EndOfScript =>
          /\ Completes = {Len(markers)}
          /\ markers[Len(markers)].python_line = 0
          /\ markers[Len(markers)].business_line = 0

C10_Witness ==
    /\ ipc = EndOfScript
    /\ stdout # <<>>
    /\ markers[Len(markers)].step_id = "COMPLETE"

\* the result of the marker invocation the script is about to make
NextReport ==
    LET m == MarkerAt(ipc)
    IN STEP_CONTROL(step_control, m.step_id, m.python_line, m.business_line,
                    m.description)

\* C11: the counter starts at 0 and after n marker invocations equals n;
\* an invocation adds exactly one, keeps mode and target step, and in step
\* mode returns true
C11_CounterCountsMarkers ==
    /\ step_control.current_step = Len(markers)
    /\ step_control.mode = "step"
    /\ step_control.target_step = 1
    /\ ipc \in MarkerLines =>
          /\ NextReport.ctl.current_step = step_control.current_step + 1
          /\ NextReport.ctl.mode = step_control.mode
          /\ NextReport.ctl.target_step = step_control.target_step
          /\ NextReport.ret = TRUE

C11_Witness ==
    /\ ipc = EndOfScript
    /\ Len(markers) > 1
    /\ step_control.current_step = Len(markers)

\* C12: with two executions interleaved, the step counter of each holds
\* only its own marker invocations, counted from 0
C12_OwnCounter ==
    /\ ipc >= 18 => step_control.current_step = Len(markers)
    /\ parked.ipc \in 18..(EndOfScript - 1) =>
          step_control.current_step = Len(parked.markers)

(***************************************************************************)
(* Further properties of the tree-walking interpreter                      *)
(***************************************************************************)
\* a target as written in the rule
TargetStr(target) ==
    IF target.kind = "Name" THEN target.id ELSE target.id \o "." \o target.attr

\* the attribute-path targets of Node name bound variables
NodeAttrBasesBound ==
    \A j \in DOMAIN Node.targets :
        Node.targets[j].kind = "Attribute" => Node.targets[j].id \in DOMAIN locals

\* C13: an assignment whose right-hand side evaluates is evaluated once
\* and gives every target, name or attribute path, a step `target = <value>`
\* in target order; its name targets hold the value afterwards
C13_BindEveryTarget ==
    [][ (AtNode("Assign") /\ NodeAttrBasesBound
            /\ eval_expression(Node.value, Self).exc = NoExc) =>
          LET r == eval_expression(Node.value, Self)
          IN /\ exc' = NoExc
             /\ heap' = r.heap /\ sink' = r.sink
             /\ Len(NewSteps) = Len(Node.targets)
             /\ \A j \in DOMAIN Node.targets :
                   /\ NewSteps[j].output =
                         TargetStr(Node.targets[j]) \o " = " \o PyRepr(r.val, r.heap)
                   /\ Node.targets[j].kind = "Name" =>
                         /\ Node.targets[j].id \in DOMAIN locals'
                         /\ locals'[Node.targets[j].id] = r.val
      ]_vars

\* the position of the first unconditional break in the body of Node
BreakPos == CHOOSE i \in DOMAIN Node.body :
                /\ Node.body[i].k = "Break"
                /\ \A j \in 1..(i - 1) : Node.body[j].k # "Break"

\* C14: when a loop reaches a break, the break gets a step, exactly one, and
\* no statement of the loop body after the break records a step (the loop
\* ends at once: no further statement, no later iteration)
C14_BreakEndsLoop ==
    [][ (AtNode("For") /\ eval_expression(Node.value, Self).val.t = "list"
            /\ BreakReached(heap[eval_expression(Node.value, Self).val.n])) =>
          /\ CountAt(NewSteps, Node.body[BreakPos].lineno) = 1
          /\ \A j \in (BreakPos + 1)..Len(Node.body) :
                ~Recorded(NewSteps, Node.body[j].lineno)
      ]_vars

\* C15: a bare identifier that is neither bound by the rule nor in the
\* registry (log_message, log) never evaluates to a value: the statement
\* raises the unknown-name error, which becomes the terminal error step
C15_UnknownNameRejected ==
    [][ (pc = "loop" /\ idx <= Len(code.body) /\ Node.k \in {"Expr", "Assign"}
            /\ Node.value.e = "Name"
            /\ Node.value.id \notin (DOMAIN locals \cup Helpers)) =>
          /\ exc' = Raise(NameError(Node.value.id))
          /\ pc' = "except"
      ]_vars

\* C17: a conditional whose test evaluates records exactly one step of its
\* own, with the line of the `if` and the result of the test, before every
\* step of the branch that runs; when the test raises it records none
C17_ConditionalStep ==
    [][ AtNode("If") =>
          LET r == eval_expression(Node.test, Self)
          IN IF r.exc = NoExc
             THEN /\ NewSteps # <<>>
                  /\ NewSteps[1].line = Node.lineno
                  /\ NewSteps[1].output =
                         "if " \o expr_to_string(Node.test) \o ": # "
                               \o PyStr(r.val, r.heap)
                  /\ NewSteps[1].error = <<>>
                  /\ CountAt(NewSteps, Node.lineno) = 1
             ELSE /\ NewSteps = <<>>
                  /\ exc' = r.exc
      ]_vars

\* a conditional has run: its own step is followed by a step of its branch
C17_Witness ==
    /\ pc = "loop"
    /\ idx > 1
    /\ code.body[idx - 1].k = "If"
    /\ \E i \in 1..(Len(steps) - 1) :
          /\ steps[i].line = code.body[idx - 1].lineno
          /\ steps[i + 1].line \in LinesOf(code.body[idx - 1].orelse)

\* the line of the last step of a list, 0 for the empty list
LastLine(ss) == IF ss = <<>> THEN 0 ELSE ss[Len(ss)].line

\* C18: the current line is the line of the last captured step (0 before the
\* first), and the terminal error step carries that line
C18_ErrorLine ==
    /\ pc \in {"parse", "loop", "except"} => line_number = LastLine(steps)
    /\ (pc = "return" /\ HasError(steps)) =>
          LastLine(steps) = LastLine(SubSeq(steps, 1, Len(steps) - 1))

\* a statement failed after a step of another line: the error step has the
\* line of that step, not of the failing statement
C18_Witness ==
    /\ pc = "return"
    /\ Len(steps) >= 2
    /\ steps[Len(steps)].error # <<>>
    /\ steps[Len(steps)].line = steps[Len(steps) - 1].line
    /\ idx <= Len(code.body)
    /\ steps[Len(steps)].line # code.body[idx].lineno

\* C19: every name in a step's snapshot is in the next step's snapshot
C19_NamesOnlyGrow ==
    \A k \in 1..(Len(steps) - 1) :
        DOMAIN steps[k].variables \subseteq DOMAIN steps[k + 1].variables

\* a name assigned inside a conditional or a loop is in the snapshot of a
\* step recorded by a later statement
C19_Witness ==
    /\ idx > 2
    /\ code.body[idx - 2].k \in {"If", "For"}
    /\ Len(steps) >= 2
    /\ steps[Len(steps)].line = code.body[idx - 1].lineno
    /\ \E name \in DOMAIN steps[Len(steps)].variables :
          /\ code.body[idx - 1].k = "Assign"
          /\ code.body[idx - 1].targets[1].id # name
          /\ \E j \in DOMAIN code.body[idx - 2].orelse :
                /\ code.body[idx - 2].orelse[j].k = "Assign"
                /\ code.body[idx - 2].orelse[j].targets[1].id = name
                /\ Recorded(steps, code.body[idx - 2].orelse[j].lineno)

====
